---- MODULE Spec2Model ----
(***************************************************************************)
(* A model of the go.hue client library: the Bridge request layer, the     *)
(* listing and lookup operations, and the two SetLightState / SetState     *)
(* implementations the repository carries (the string-sentinel one of      *)
(* light.go and the `omitempty` one that follows the bridge code).         *)
(*                                                                         *)
(* Every operation is one synchronous request/response exchange, so one    *)
(* action models one call: the request it puts on the wire (sent), what it *)
(* hands back (ret) and the arguments it was called with (call).  The JSON *)
(* document the bridge device answers with (resp) is environment state.    *)
(***************************************************************************)
EXTENDS Integers, Sequences, FiniteSets, TLC

VARIABLES
    resp,                 \* what the bridge device answers: a transport error or a JSON document
    held,                 \* the *Light objects the caller holds from the last successful listing / lookup
    call,                 \* the last call: operation and arguments
    sent,                 \* the HTTP request that call issued (NoRequest if it issued none)
    ret                   \* what that call returned, or that it panicked

vars == <<resp, held, call, sent, ret>>

(***************************************************************************)
(* Bounds of the model.                                                    *)
(***************************************************************************)
MaxKeys == 2         \* members in one JSON mapping answered by the bridge
MaxSetFields == 2    \* fields a caller populates in one partial-update record

(***************************************************************************)
(* Go values and JSON values, tagged with their type.                      *)
(*   bool, int, string: b, n, s.  floats: a ([]float).  bytes: a, a Go     *)
(*   string kept as its sequence of bytes, for the strings strconv parses. *)
(***************************************************************************)
VBool(x)   == [t |-> "bool",   b |-> x,     n |-> 0, s |-> "", a |-> <<>>]
VInt(x)    == [t |-> "int",    b |-> FALSE, n |-> x, s |-> "", a |-> <<>>]
VStr(x)    == [t |-> "string", b |-> FALSE, n |-> 0, s |-> x,  a |-> <<>>]
VFloats(x) == [t |-> "floats", b |-> FALSE, n |-> 0, s |-> "", a |-> x]
VBytes(x)  == [t |-> "bytes",  b |-> FALSE, n |-> 0, s |-> "", a |-> x]

Range(f) == { f[i] : i \in DOMAIN f }

Perms(S) == { p \in [1..Cardinality(S) -> S] : \A i, j \in 1..Cardinality(S) : p[i] = p[j] => i = j }

(***************************************************************************)
(* errors                                                                  *)
(***************************************************************************)
NoErr == [kind |-> "nil", msg |-> <<>>]
ConnRefused == [kind |-> "transport", msg |-> <<"connection refused">>]
Timeout     == [kind |-> "transport", msg |-> <<"i/o timeout">>]
SyntaxError == [kind |-> "decode", msg |-> <<"invalid character">>]
UnmarshalTypeError == [kind |-> "decode", msg |-> <<"json: cannot unmarshal">>]

\* a not-found error that leaves the key out of its message
errorsNewWithoutKey(prefix, key) == [kind |-> "notfound", msg |-> <<prefix>>]

\* errors.New(prefix + key): the message is the concatenation of its parts
errorsNew(prefix, key) == [kind |-> "notfound", msg |-> <<prefix>> \o <<key>>]

(***************************************************************************)
(* Bridge                                                                  *)
(***************************************************************************)
NilBridge == [nil |-> TRUE, IPAddr |-> "", Username |-> ""]

NewBridge(ipAddr, username) == [nil |-> FALSE, IPAddr |-> ipAddr, Username |-> username]

Bridge1 == NewBridge("10.0.0.2", "alice")

Bridge2 == NewBridge("10.0.0.3", "bob")

Bridges == {Bridge1, Bridge2}

\* fmt.Sprintf("http://%s/api/%s%s", b.IPAddr, b.Username, path); a URI is the sequence of its parts
toURI(b, path) == <<"http://", b.IPAddr, "/api/", b.Username>> \o path

NoRequest == [method |-> "", uri |-> <<>>, hasBody |-> FALSE, body |-> <<>>]

get(b, path) == [method |-> "GET", uri |-> toURI(b, path), hasBody |-> FALSE, body |-> <<>>]

post(b, path) == [method |-> "POST", uri |-> toURI(b, path), hasBody |-> FALSE, body |-> <<>>]

put(b, path, data) == [method |-> "PUT", uri |-> toURI(b, path), hasBody |-> TRUE, body |-> data]

(***************************************************************************)
(* Light and Group objects                                                 *)
(***************************************************************************)
Light(id, name, b) == [ID |-> id, Name |-> name, bridge |-> b]

Group(id, name, type, class, lights, b) ==
    [ID |-> id, Name |-> name, Type |-> type, Class |-> class, Lights |-> lights, Bridge |-> b]

(***************************************************************************)
(* Partial-update records.  A record as the caller writes it (u) says, per *)
(* field, whether the call site populates it and with what; the Go struct  *)
(* value the library receives is the composite literal: a field the call   *)
(* site leaves out holds the zero value of its type.                       *)
(***************************************************************************)
\* light.go: every field but Xy is a string; the numeric ones are parsed with strconv
SetLightStateFields == {"On", "Bri", "Hue", "Sat", "Xy", "Ct", "Alert", "Effect", "TransitionTime"}

SetLightStateZero(f) ==
    CASE f \in {"On", "Alert", "Effect"} -> VStr("")
      [] f = "Xy" -> VFloats(<<>>)
      [] OTHER -> VBytes(<<>>)

SetLightState(u) == [f \in SetLightStateFields |-> IF u[f].set THEN u[f].v ELSE SetLightStateZero(f)]

\* the `omitempty` variant: bool, uint8 / uint16, []float64 and string fields, in declaration order
SetLightStateTypedOrder == <<"On", "Bri", "Hue", "Sat", "Xy", "Ct", "Alert", "Effect", "TransitionTime", "Scene">>

SetLightStateTypedFields == Range(SetLightStateTypedOrder)

SetLightStateTypedZero(f) ==
    CASE f = "On" -> VBool(FALSE)
      [] f \in {"Alert", "Effect", "Scene"} -> VStr("")
      [] f = "Xy" -> VFloats(<<>>)
      [] OTHER -> VInt(0)

SetLightStateTyped(u) ==
    [f \in SetLightStateTypedFields |-> IF u[f].set THEN u[f].v ELSE SetLightStateTypedZero(f)]

\* GroupState is declared field for field like the `omitempty` SetLightState
GroupStateOrder == <<"On", "Bri", "Hue", "Sat", "Xy", "Ct", "Alert", "Effect", "TransitionTime", "Scene">>

GroupState(u) ==
    [f \in Range(GroupStateOrder) |-> IF u[f].set THEN u[f].v ELSE SetLightStateTypedZero(f)]

\* the json key of a struct field (`json:"<key>,omitempty"`)
JsonTag(f) ==
    CASE f = "On" -> "on"   [] f = "Bri" -> "bri" [] f = "Hue" -> "hue"
      [] f = "Sat" -> "sat" [] f = "Xy" -> "xy"   [] f = "Ct" -> "ct"
      [] f = "Alert" -> "alert" [] f = "Effect" -> "effect"
      [] f = "TransitionTime" -> "transitiontime" [] f = "Scene" -> "scene"

(***************************************************************************)
(* encoding/json and strconv                                               *)
(***************************************************************************)
\* omitempty that forgets the string case: "" is written out
isEmptyValueKeepsStrings(v) ==
    CASE v.t = "bool" -> ~v.b
      [] v.t = "int" -> v.n = 0
      [] v.t = "string" -> FALSE
      [] OTHER -> Len(v.a) = 0

\* omitempty: false, 0, a nil or empty slice and "" are left out
isEmptyValue(v) ==
    CASE v.t = "bool" -> ~v.b
      [] v.t = "int" -> v.n = 0
      [] v.t = "string" -> v.s = ""
      [] OTHER -> Len(v.a) = 0

\* json.Marshal of a struct whose fields all carry omitempty: declaration order
MarshalStruct(order, state) ==
    LET kept == SelectSeq(order, LAMBDA f : ~isEmptyValue(state[f]))
    IN  [i \in 1..Len(kept) |-> [key |-> JsonTag(kept[i]), value |-> state[kept[i]]]]

\* json.Marshal of a map[string]interface{}: keys in sorted order
SortedKeys == <<"alert", "bri", "ct", "effect", "hue", "on", "sat", "transitiontime", "xy">>

MarshalMap(params) ==
    LET kept == SelectSeq(SortedKeys, LAMBDA k : k \in DOMAIN params)
    IN  [i \in 1..Len(kept) |-> [key |-> kept[i], value |-> params[kept[i]]]]

\* strconv.ParseBool; on any other string it returns (false, err)
ParseBool(str) == str \in {"1", "t", "T", "TRUE", "true", "True"}

RECURSIVE digitsValue(_, _)
digitsValue(s, acc) ==
    IF Len(s) = 0 THEN acc ELSE digitsValue(Tail(s), 10 * acc + (Head(s) - 48))

\* strconv.Atoi over the bytes of the string; on a syntax error it returns (0, err)
Atoi(s) ==
    LET signed == Len(s) > 0 /\ s[1] \in {43, 45}
        digits == IF signed THEN Tail(s) ELSE s
    IN  IF Len(digits) = 0 \/ \E i \in 1..Len(digits) : digits[i] \notin 48..57
        THEN 0
        ELSE IF signed /\ s[1] = 45 THEN 0 - digitsValue(digits, 0) ELSE digitsValue(digits, 0)

\* the params map Light.SetState (light.go) fills; the conversion errors are dropped
SetStateParams(state) ==
    LET present == { k \in Range(SortedKeys) :
                       \/ k = "on" /\ state.On.s # ""
                       \/ k = "bri" /\ Len(state.Bri.a) # 0
                       \/ k = "hue" /\ Len(state.Hue.a) # 0
                       \/ k = "sat" /\ Len(state.Sat.a) # 0
                       \/ k = "xy" /\ Len(state.Xy.a) # 0
                       \/ k = "ct" /\ Len(state.Ct.a) # 0
                       \/ k = "alert" /\ state.Alert.s # ""
                       \/ k = "effect" /\ state.Effect.s # ""
                       \/ k = "transitiontime" /\ Len(state.TransitionTime.a) # 0 }
    IN  [k \in present |->
            CASE k = "on" -> VBool(ParseBool(state.On.s))
              [] k = "bri" -> VInt(Atoi(state.Bri.a))
              [] k = "hue" -> VInt(Atoi(state.Hue.a))
              [] k = "sat" -> VInt(Atoi(state.Sat.a))
              [] k = "xy" -> state.Xy
              [] k = "ct" -> VInt(Atoi(state.Ct.a))
              [] k = "alert" -> state.Alert
              [] k = "effect" -> state.Effect
              [] k = "transitiontime" -> VInt(Atoi(state.TransitionTime.a))]

(***************************************************************************)
(* The inputs: what callers pass and what the bridge answers.              *)
(***************************************************************************)
\* values a call site gives the string fields of light.go's SetLightState ("254" is its bytes)
StringVal(f, i) ==
    CASE f = "On"     -> IF i = 1 THEN VStr("false") ELSE VStr("true")
      [] f = "Bri"    -> IF i = 1 THEN VBytes(<<48>>) ELSE VBytes(<<50, 53, 52>>)
      [] f = "Hue"    -> IF i = 1 THEN VBytes(<<48>>) ELSE VBytes(<<54, 53, 53, 51, 53>>)
      [] f = "Sat"    -> IF i = 1 THEN VBytes(<<48>>) ELSE VBytes(<<50, 53, 53>>)
      [] f = "Xy"     -> IF i = 1 THEN VFloats(<<0, 1>>) ELSE VFloats(<<1, 0>>)
      [] f = "Ct"     -> IF i = 1 THEN VBytes(<<49, 53, 51>>) ELSE VBytes(<<53, 48, 48>>)
      [] f = "Alert"  -> IF i = 1 THEN VStr("none") ELSE VStr("select")
      [] f = "Effect" -> IF i = 1 THEN VStr("none") ELSE VStr("colorloop")
      [] f = "TransitionTime" -> IF i = 1 THEN VBytes(<<48>>) ELSE VBytes(<<49, 48>>)

\* the same values as a call site gives them to the typed fields
TypedVal(f, i) ==
    CASE f = "On"     -> IF i = 1 THEN VBool(FALSE) ELSE VBool(TRUE)
      [] f = "Bri"    -> IF i = 1 THEN VInt(0) ELSE VInt(254)
      [] f = "Hue"    -> IF i = 1 THEN VInt(0) ELSE VInt(65535)
      [] f = "Sat"    -> IF i = 1 THEN VInt(0) ELSE VInt(255)
      [] f = "Xy"     -> IF i = 1 THEN VFloats(<<0, 1>>) ELSE VFloats(<<1, 0>>)
      [] f = "Ct"     -> IF i = 1 THEN VInt(153) ELSE VInt(500)
      [] f = "Alert"  -> IF i = 1 THEN VStr("none") ELSE VStr("select")
      [] f = "Effect" -> IF i = 1 THEN VStr("none") ELSE VStr("colorloop")
      [] f = "TransitionTime" -> IF i = 1 THEN VInt(0) ELSE VInt(10)
      [] f = "Scene"  -> IF i = 1 THEN VStr("s1") ELSE VStr("s2")

\* the record a call site writes when it populates the fields D, choosing value c[f] for f
StringRecord(D, c) ==
    [f \in SetLightStateFields |->
        IF f \in D THEN [set |-> TRUE, v |-> StringVal(f, c[f])]
                   ELSE [set |-> FALSE, v |-> SetLightStateZero(f)]]

TypedRecord(D, c) ==
    [f \in SetLightStateTypedFields |->
        IF f \in D THEN [set |-> TRUE, v |-> TypedVal(f, c[f])]
                   ELSE [set |-> FALSE, v |-> SetLightStateTypedZero(f)]]

StringRecords ==
    UNION { { StringRecord(D, c) : c \in [D -> {1, 2}] } :
            D \in { S \in SUBSET SetLightStateFields : Cardinality(S) <= MaxSetFields } }

TypedRecords ==
    UNION { { TypedRecord(D, c) : c \in [D -> {1, 2}] } :
            D \in { S \in SUBSET SetLightStateTypedFields : Cardinality(S) <= MaxSetFields } }

\* the records written at a handful of call sites: nothing, brightness 0, lights off, an alert
SampleStringRecords ==
    { StringRecord({}, <<>>), StringRecord({"Bri"}, [f \in {"Bri"} |-> 1]),
      StringRecord({"On"}, [f \in {"On"} |-> 1]) }

SampleTypedRecords ==
    { TypedRecord({}, <<>>), TypedRecord({"Bri"}, [f \in {"Bri"} |-> 1]),
      TypedRecord({"Alert"}, [f \in {"Alert"} |-> 2]) }

NoState == <<>>

Names == {"Lamp", "Desk"}

\* the members of a JSON mapping: an object (whose "name" is a string, absent or a number) or a string
ObjectEntry(nameKind, name) ==
    [kind |-> "object", str |-> "", nameKind |-> nameKind, name |-> name,
     type |-> "LightGroup", class |-> "Other", lights |-> <<"1">>]

StringEntry(str) ==
    [kind |-> "string", str |-> str, nameKind |-> "absent", name |-> "",
     type |-> "", class |-> "", lights |-> <<>>]

AllKeys == {"0", "1", "2", "lastscan"}

EntryVals(k) ==
    CASE k = "lastscan" -> { StringEntry("2014-01-01T00:00:00"), ObjectEntry("string", "Lamp") }
      [] k = "0" -> { ObjectEntry("string", "Lamp") }
      [] OTHER -> { ObjectEntry("string", n) : n \in Names }
                    \cup { ObjectEntry("absent", ""), ObjectEntry("number", ""), StringEntry("on") }

Entries == UNION { EntryVals(k) : k \in AllKeys }

\* a response: a transport error, or a body that is malformed, a JSON array or a JSON object
TransportError(e) == [err |-> e, top |-> "none", items |-> <<>>, members |-> <<>>]

Malformed == [err |-> NoErr, top |-> "malformed", items |-> <<>>, members |-> <<>>]

Array(items) == [err |-> NoErr, top |-> "array", items |-> items, members |-> <<>>]

Object(members) == [err |-> NoErr, top |-> "object", items |-> <<>>, members |-> members]

ResultItems == { <<>>, <<"success">>, <<"error">>, <<"success", "error">> }

Mappings ==
    UNION { { m \in [K -> Entries] : \A k \in K : m[k] \in EntryVals(k) } :
            K \in { S \in SUBSET AllKeys : Cardinality(S) <= MaxKeys } }

Responses ==
    { TransportError(ConnRefused), TransportError(Timeout), Malformed }
        \cup { Array(r) : r \in ResultItems } \cup { Object(m) : m \in Mappings }

LookupKeys == {"1", "Lamp", "Missing"}

GroupIDs == {"0", "1"}

(***************************************************************************)
(* Decoding the response body                                              *)
(***************************************************************************)
\* json decoding into a map[string]Light / map[string]Group: every member must be an
\* object, and its "name", when present, a string
decodeMapErr ==
    CASE resp.top = "malformed" -> SyntaxError
      [] resp.top = "array" -> UnmarshalTypeError
      [] OTHER -> IF \E k \in DOMAIN resp.members :
                        resp.members[k].kind # "object" \/ resp.members[k].nameKind = "number"
                  THEN UnmarshalTypeError ELSE NoErr

\* the Name field after decoding a member: the zero value when the key is absent
decodedName(entry) == IF entry.nameKind = "string" THEN entry.name ELSE ""

\* json.Unmarshal into a map[string]interface{}: any JSON object will do
unmarshalAnyErr ==
    CASE resp.top = "malformed" -> SyntaxError
      [] resp.top = "array" -> UnmarshalTypeError
      [] OTHER -> NoErr

\* json decoding into a []Result
decodeResults ==
    CASE resp.top = "malformed" -> [results |-> <<>>, err |-> SyntaxError]
      [] resp.top = "object" -> [results |-> <<>>, err |-> UnmarshalTypeError]
      [] OTHER -> [results |-> resp.items, err |-> NoErr]

\* json decoding into a LightAttributes struct: unknown members are skipped
decodeAttributesErr ==
    CASE resp.top = "malformed" -> SyntaxError
      [] resp.top = "array" -> UnmarshalTypeError
      [] OTHER -> NoErr

(***************************************************************************)
(* What a call leaves behind                                               *)
(***************************************************************************)
NoCall == [op |-> "none", bridge |-> NilBridge, light |-> <<>>, key |-> "", state |-> NoState]

NoRet == [outcome |-> "none", err |-> NoErr, lights |-> <<>>, light |-> <<>>, groups |-> <<>>,
          lastScan |-> "", results |-> <<>>]

Returned == [NoRet EXCEPT !.outcome = "return"]

\* a run-time panic (nil pointer dereference, failed type assertion): nothing is returned
Panicked == [NoRet EXCEPT !.outcome = "panic"]

(***************************************************************************)
(* Listing and lookup                                                      *)
(***************************************************************************)
\* the value Bridge.GetAllLights returns; order is the order the map is ranged over
getAllLights(b, order) ==
    IF resp.err # NoErr THEN [lights |-> <<>>, err |-> resp.err]
    ELSE IF decodeMapErr # NoErr THEN [lights |-> <<>>, err |-> decodeMapErr]
    ELSE [lights |-> [i \in 1..Len(order) |->
                         Light(order[i], decodedName(resp.members[order[i]]), b)],
          err |-> NoErr]

GetAllLights(b, order) ==
    LET r == getAllLights(b, order)
    IN  /\ call' = [NoCall EXCEPT !.op = "GetAllLights", !.bridge = b]
        /\ sent' = get(b, <<"/lights">>)
        /\ ret' = [Returned EXCEPT !.lights = r.lights, !.err = r.err]
        /\ held' = IF r.err = NoErr THEN Range(r.lights) ELSE held
        /\ UNCHANGED resp

\* a light built with identifier and name swapped
newLightSwapped(id, name) == Light(name, id, NilBridge)

\* the light GetNewLights builds for one member of the mapping
newLight(id, name) == Light(id, name, NilBridge)

GetNewLights(b, order) ==
    LET ids == SelectSeq(order, LAMBDA id : id # "lastscan")
        lights == [i \in 1..Len(ids) |-> newLight(ids[i], resp.members[ids[i]].name)]
        \* results["lastscan"].(string), params.(map[string]interface{}), value.(string)
        assertionFails ==
            \/ "lastscan" \notin DOMAIN resp.members
            \/ resp.members["lastscan"].kind # "string"
            \/ \E i \in 1..Len(ids) :
                  \/ resp.members[ids[i]].kind # "object"
                  \/ resp.members[ids[i]].nameKind # "string"
    IN  /\ call' = [NoCall EXCEPT !.op = "GetNewLights", !.bridge = b]
        /\ sent' = get(b, <<"/lights/new">>)
        /\ IF resp.err # NoErr
           THEN ret' = [Returned EXCEPT !.err = resp.err] /\ held' = held
           ELSE IF unmarshalAnyErr # NoErr
           THEN ret' = [Returned EXCEPT !.err = unmarshalAnyErr] /\ held' = held
           ELSE IF assertionFails
           THEN ret' = Panicked /\ held' = held
           ELSE /\ ret' = [Returned EXCEPT !.lights = lights,
                                           !.lastScan = resp.members["lastscan"].str]
                /\ held' = Range(lights)
        /\ UNCHANGED resp

FindLightByID(b, id, order) ==
    LET r == getAllLights(b, order)
        hits == { i \in 1..Len(r.lights) : r.lights[i].ID = id }
        first == CHOOSE i \in hits : \A j \in hits : i <= j
    IN  /\ call' = [NoCall EXCEPT !.op = "FindLightByID", !.bridge = b, !.key = id]
        /\ sent' = get(b, <<"/lights">>)
        /\ IF r.err # NoErr
           THEN ret' = [Returned EXCEPT !.err = r.err] /\ held' = held
           ELSE IF hits # {}
           THEN ret' = [Returned EXCEPT !.light = <<r.lights[first]>>] /\ held' = {r.lights[first]}
           ELSE /\ ret' = [Returned EXCEPT !.err = errorsNew("unable to find light with id, ", id)]
                /\ held' = held
        /\ UNCHANGED resp

FindLightByName(b, name, order) ==
    LET r == getAllLights(b, order)
        hits == { i \in 1..Len(r.lights) : r.lights[i].Name = name }
        first == CHOOSE i \in hits : \A j \in hits : i <= j
    IN  /\ call' = [NoCall EXCEPT !.op = "FindLightByName", !.bridge = b, !.key = name]
        /\ sent' = get(b, <<"/lights">>)
        /\ IF r.err # NoErr
           THEN ret' = [Returned EXCEPT !.err = r.err] /\ held' = held
           ELSE IF hits # {}
           THEN ret' = [Returned EXCEPT !.light = <<r.lights[first]>>] /\ held' = {r.lights[first]}
           ELSE /\ ret' = [Returned EXCEPT !.err = errorsNew("unable to find light with name, ", name)]
                /\ held' = held
        /\ UNCHANGED resp

Search(b) ==
    /\ call' = [NoCall EXCEPT !.op = "Search", !.bridge = b]
    /\ sent' = post(b, <<"/lights">>)
    /\ ret' = IF resp.err # NoErr THEN [Returned EXCEPT !.err = resp.err]
              ELSE [Returned EXCEPT !.results = decodeResults.results, !.err = decodeResults.err]
    /\ UNCHANGED <<resp, held>>

\* the key whose entry the i-th appended pointer shows once the loop is over.  The
\* language version of the build decides: with one range variable per iteration
\* (go >= 1.22) it is the i-th key; with one range variable for the whole loop, every
\* &group is that one variable, last written in the last iteration.
rangeVarAt(order, i, perIteration) == IF perIteration THEN order[i] ELSE order[Len(order)]

GetAllGroups(b, order, perIteration) ==
    LET groups == [i \in 1..Len(order) |->
                      LET id == rangeVarAt(order, i, perIteration)
                          group == resp.members[id]
                      IN  Group(id, decodedName(group), group.type, group.class, group.lights, b)]
    IN  /\ call' = [NoCall EXCEPT !.op = "GetAllGroups", !.bridge = b]
        /\ sent' = get(b, <<"/groups">>)
        /\ ret' = IF resp.err # NoErr THEN [Returned EXCEPT !.err = resp.err]
                  ELSE IF decodeMapErr # NoErr THEN [Returned EXCEPT !.err = decodeMapErr]
                  ELSE [Returned EXCEPT !.groups = groups]
        /\ UNCHANGED <<resp, held>>

(***************************************************************************)
(* Operations on a Light.  Each goes through l.bridge; with a nil bridge   *)
(* the call panics in toURI before anything is sent.                       *)
(***************************************************************************)
\* the round trip of a mutating call: PUT, then decode the []Result
putAndDecode(b, path, data) ==
    IF b.nil THEN [sent |-> NoRequest, ret |-> Panicked]
    ELSE [sent |-> put(b, path, data),
          ret |-> IF resp.err # NoErr THEN [Returned EXCEPT !.err = resp.err]
                  ELSE [Returned EXCEPT !.results = decodeResults.results, !.err = decodeResults.err]]

GetLightAttributes(l) ==
    /\ call' = [NoCall EXCEPT !.op = "GetLightAttributes", !.light = <<l>>]
    /\ IF l.bridge.nil
       THEN sent' = NoRequest /\ ret' = Panicked
       ELSE /\ sent' = get(l.bridge, <<"/lights/", l.ID>>)
            /\ ret' = IF resp.err # NoErr THEN [Returned EXCEPT !.err = resp.err]
                      ELSE [Returned EXCEPT !.err = decodeAttributesErr]
    /\ UNCHANGED <<resp, held>>

SetName(l, newName) ==
    LET r == putAndDecode(l.bridge, <<"/lights/", l.ID>>, <<[key |-> "name", value |-> VStr(newName)]>>)
    IN  /\ call' = [NoCall EXCEPT !.op = "SetName", !.light = <<l>>, !.key = newName]
        /\ sent' = r.sent
        /\ ret' = r.ret
        /\ UNCHANGED <<resp, held>>

\* ---- light.go: string fields, "" meaning unset ----
lightSetState(l, state) ==
    putAndDecode(l.bridge, <<"/lights/", l.ID, "/state">>, MarshalMap(SetStateParams(state)))

SetState(l, u) ==
    LET r == lightSetState(l, SetLightState(u))
    IN  /\ call' = [NoCall EXCEPT !.op = "SetState", !.light = <<l>>, !.state = u]
        /\ sent' = r.sent
        /\ ret' = r.ret
        /\ UNCHANGED <<resp, held>>

\* On() that leaves a running colorloop alone: SetLightState{On: "true"}
OnStateWithoutEffect ==
    [f \in SetLightStateFields |-> IF f = "On" THEN VStr("true") ELSE SetLightStateZero(f)]

\* SetLightState{On: "true", Effect: "none"}
OnState ==
    [f \in SetLightStateFields |->
        CASE f = "On" -> VStr("true") [] f = "Effect" -> VStr("none") [] OTHER -> SetLightStateZero(f)]

On(l) ==
    LET r == lightSetState(l, OnState)
    IN  /\ call' = [NoCall EXCEPT !.op = "On", !.light = <<l>>]
        /\ sent' = r.sent
        /\ ret' = r.ret
        /\ UNCHANGED <<resp, held>>

\* SetLightState{On: "false"}
OffState ==
    [f \in SetLightStateFields |-> IF f = "On" THEN VStr("false") ELSE SetLightStateZero(f)]

Off(l) ==
    LET r == lightSetState(l, OffState)
    IN  /\ call' = [NoCall EXCEPT !.op = "Off", !.light = <<l>>]
        /\ sent' = r.sent
        /\ ret' = r.ret
        /\ UNCHANGED <<resp, held>>

\* SetLightState{On: "true", Effect: "colorloop"}
ColorLoopState ==
    [f \in SetLightStateFields |->
        CASE f = "On" -> VStr("true") [] f = "Effect" -> VStr("colorloop") [] OTHER -> SetLightStateZero(f)]

ColorLoop(l) ==
    LET r == lightSetState(l, ColorLoopState)
    IN  /\ call' = [NoCall EXCEPT !.op = "ColorLoop", !.light = <<l>>]
        /\ sent' = r.sent
        /\ ret' = r.ret
        /\ UNCHANGED <<resp, held>>

\* ---- the typed variant: json.Marshal of the struct, every field omitempty ----
lightSetStateTyped(l, state) ==
    putAndDecode(l.bridge, <<"/lights/", l.ID, "/state">>, MarshalStruct(SetLightStateTypedOrder, state))

SetStateTyped(l, u) ==
    LET r == lightSetStateTyped(l, SetLightStateTyped(u))
    IN  /\ call' = [NoCall EXCEPT !.op = "SetStateTyped", !.light = <<l>>, !.state = u]
        /\ sent' = r.sent
        /\ ret' = r.ret
        /\ UNCHANGED <<resp, held>>

\* SetLightState{On: true, Effect: "none"}
OnStateTyped ==
    [f \in SetLightStateTypedFields |->
        CASE f = "On" -> VBool(TRUE) [] f = "Effect" -> VStr("none") [] OTHER -> SetLightStateTypedZero(f)]

OnTyped(l) ==
    LET r == lightSetStateTyped(l, OnStateTyped)
    IN  /\ call' = [NoCall EXCEPT !.op = "OnTyped", !.light = <<l>>]
        /\ sent' = r.sent
        /\ ret' = r.ret
        /\ UNCHANGED <<resp, held>>

\* SetLightState{On: false}
OffStateTyped ==
    [f \in SetLightStateTypedFields |-> IF f = "On" THEN VBool(FALSE) ELSE SetLightStateTypedZero(f)]

OffTyped(l) ==
    LET r == lightSetStateTyped(l, OffStateTyped)
    IN  /\ call' = [NoCall EXCEPT !.op = "OffTyped", !.light = <<l>>]
        /\ sent' = r.sent
        /\ ret' = r.ret
        /\ UNCHANGED <<resp, held>>

\* SetLightState{On: true, Effect: "colorloop"}
ColorLoopStateTyped ==
    [f \in SetLightStateTypedFields |->
        CASE f = "On" -> VBool(TRUE) [] f = "Effect" -> VStr("colorloop") [] OTHER -> SetLightStateTypedZero(f)]

ColorLoopTyped(l) ==
    LET r == lightSetStateTyped(l, ColorLoopStateTyped)
    IN  /\ call' = [NoCall EXCEPT !.op = "ColorLoopTyped", !.light = <<l>>]
        /\ sent' = r.sent
        /\ ret' = r.ret
        /\ UNCHANGED <<resp, held>>

\* ---- groups ----
SetGroupState(b, groupID, u) ==
    LET r == putAndDecode(b, <<"/groups/", groupID, "/action">>, MarshalStruct(GroupStateOrder, GroupState(u)))
    IN  /\ call' = [NoCall EXCEPT !.op = "SetGroupState", !.bridge = b, !.key = groupID, !.state = u]
        /\ sent' = r.sent
        /\ ret' = r.ret
        /\ UNCHANGED <<resp, held>>

(***************************************************************************)
(* Spec: a caller working against a bridge that answers with resp.         *)
(***************************************************************************)
Init ==
    /\ resp \in Responses
    /\ held = {}
    /\ call = NoCall
    /\ sent = NoRequest
    /\ ret = NoRet

Orders == Perms(DOMAIN resp.members)

DoGetAllLights == \E b \in Bridges, order \in Orders : GetAllLights(b, order)
DoGetNewLights == \E b \in Bridges, order \in Orders : GetNewLights(b, order)
DoFindLightByID == \E b \in Bridges, id \in LookupKeys, order \in Orders : FindLightByID(b, id, order)
DoFindLightByName == \E b \in Bridges, name \in LookupKeys, order \in Orders : FindLightByName(b, name, order)
DoSearch == \E b \in Bridges : Search(b)
DoGetAllGroups ==
    \E b \in Bridges, order \in Orders, perIteration \in BOOLEAN : GetAllGroups(b, order, perIteration)
DoGetLightAttributes == \E l \in held : GetLightAttributes(l)
DoSetName == \E l \in held, newName \in Names : SetName(l, newName)
DoOn == \E l \in held : On(l)
DoOff == \E l \in held : Off(l)
DoColorLoop == \E l \in held : ColorLoop(l)
DoOnTyped == \E l \in held : OnTyped(l)
DoOffTyped == \E l \in held : OffTyped(l)
DoColorLoopTyped == \E l \in held : ColorLoopTyped(l)

Next ==
    \/ DoGetAllLights
    \/ DoGetNewLights
    \/ DoFindLightByID
    \/ DoFindLightByName
    \/ DoSearch
    \/ DoGetAllGroups
    \/ DoGetLightAttributes
    \/ DoSetName
    \/ DoOn
    \/ DoOff
    \/ DoColorLoop
    \/ DoOnTyped
    \/ DoOffTyped
    \/ DoColorLoopTyped
    \/ \E l \in held, u \in SampleStringRecords : SetState(l, u)
    \/ \E l \in held, u \in SampleTypedRecords : SetStateTyped(l, u)
    \/ \E b \in Bridges, groupID \in GroupIDs, u \in SampleTypedRecords : SetGroupState(b, groupID, u)

Spec == Init /\ [][Next]_vars

(***************************************************************************)
(* SpecState: the state-setting calls over every partial-update record of  *)
(* at most MaxSetFields populated fields, on a light GetAllLights returned *)
(* and against a bridge that answers with a []Result.                      *)
(***************************************************************************)
InitState ==
    /\ resp = Array(<<"success">>)
    /\ held = { Light("1", "Lamp", Bridge1) }
    /\ call = NoCall
    /\ sent = NoRequest
    /\ ret = NoRet

NextState ==
    \/ DoOn
    \/ DoOff
    \/ DoColorLoop
    \/ DoOnTyped
    \/ DoOffTyped
    \/ DoColorLoopTyped
    \/ \E l \in held, u \in StringRecords : SetState(l, u)
    \/ \E l \in held, u \in TypedRecords : SetStateTyped(l, u)
    \/ \E u \in TypedRecords : SetGroupState(Bridge1, "1", u)

SpecState == InitState /\ [][NextState]_vars

(***************************************************************************)
(* The properties                                                          *)
(***************************************************************************)
StateOps == {"SetState", "SetStateTyped", "SetGroupState"}

LightOps == {"GetLightAttributes", "SetName", "SetState", "On", "Off", "ColorLoop",
             "SetStateTyped", "OnTyped", "OffTyped", "ColorLoopTyped"}

\* the key the bridge API knows a field of the partial-update record by
WireKey(f) ==
    CASE f = "On" -> "on"   [] f = "Bri" -> "bri" [] f = "Hue" -> "hue"
      [] f = "Sat" -> "sat" [] f = "Xy" -> "xy"   [] f = "Ct" -> "ct"
      [] f = "Alert" -> "alert" [] f = "Effect" -> "effect"
      [] f = "TransitionTime" -> "transitiontime" [] f = "Scene" -> "scene"

\* the JSON value a populated field stands for: the typed value itself, or the value a
\* string field of light.go spells
WireValue(op, f, v) ==
    IF op # "SetState" THEN v
    ELSE IF v = StringVal(f, 1) THEN TypedVal(f, 1) ELSE TypedVal(f, 2)

BodyKeys == { sent.body[i].key : i \in DOMAIN sent.body }

StateURI(l) == <<"http://", l.bridge.IPAddr, "/api/", l.bridge.Username, "/lights/", l.ID, "/state">>

\* C1: in the body PUT by Light.SetState (either implementation) or Bridge.SetGroupState,
\* no field the caller left unset appears as a key.
C1_UnsetFieldsNeverSent ==
    (call.op \in StateOps /\ sent.method = "PUT") =>
        \A f \in DOMAIN call.state : ~call.state[f].set => WireKey(f) \notin BodyKeys

\* a state-setting call went out with some fields populated, some not, and a non-empty body
C1_Witness ==
    /\ call.op \in StateOps
    /\ sent.method = "PUT"
    /\ Len(sent.body) >= 1
    /\ \E f \in DOMAIN call.state : ~call.state[f].set

\* C2: every field the caller populated is in the PUT body with exactly the value set
\* (a brightness of 0 goes out as bri=0).
C2_SetFieldsSentWithTheirValue ==
    (call.op \in StateOps /\ sent.method = "PUT") =>
        \A f \in DOMAIN call.state : call.state[f].set =>
            \E i \in DOMAIN sent.body :
                /\ sent.body[i].key = WireKey(f)
                /\ sent.body[i].value = WireValue(call.op, f, call.state[f].v)

\* C3: Off() PUTs to /lights/<id>/state a body that carries on=false.
C3_OffSendsOnFalse ==
    (call.op \in {"Off", "OffTyped"}) =>
        /\ sent.method = "PUT"
        /\ sent.uri = StateURI(call.light[1])
        /\ \E i \in DOMAIN sent.body : sent.body[i].key = "on" /\ sent.body[i].value = VBool(FALSE)

\* the record a caller writes to ask for on=true, effect="none" and nothing else
OnRecord == StringRecord({"On", "Effect"}, [f \in {"On", "Effect"} |-> IF f = "On" THEN 2 ELSE 1])

OnRecordTyped == TypedRecord({"On", "Effect"}, [f \in {"On", "Effect"} |-> IF f = "On" THEN 2 ELSE 1])

OnRequestExpected ==
    (call.op \in {"On", "OnTyped"}) =>
        /\ sent.method = "PUT"
        /\ sent.uri = StateURI(call.light[1])
        /\ Len(sent.body) = 2
        /\ Range(sent.body) = { [key |-> "on", value |-> VBool(TRUE)],
                                [key |-> "effect", value |-> VStr("none")] }

OnAfterSameRequest ==
    /\ (call.op = "SetState" /\ call.state = OnRecord /\ call'.op = "On" /\ call'.light = call.light)
          => (sent' = sent /\ sent'.method = "PUT")
    /\ (call.op = "SetStateTyped" /\ call.state = OnRecordTyped /\ call'.op = "OnTyped"
            /\ call'.light = call.light)
          => (sent' = sent /\ sent'.method = "PUT")
    /\ (call.op = "On" /\ call'.op = "On" /\ call'.light = call.light) => sent' = sent
    /\ (call.op = "OnTyped" /\ call'.op = "OnTyped" /\ call'.light = call.light) => sent' = sent

\* C4: On() sends the request SetState sends for on=true, effect="none": a PUT to the
\* light's state URI carrying exactly those two keys, the same request when On() follows
\* that SetState call or another On() on the same light.
C4_OnIsSetStateOnEffectNone == []OnRequestExpected /\ [][OnAfterSameRequest]_vars

\* On() was called on a light and its request went out
C4_Witness ==
    /\ call.op \in {"On", "OnTyped"}
    /\ sent.method = "PUT"
    /\ Len(sent.body) = 2

ResponseKeys == DOMAIN resp.members

\* the mapping decodes as a mapping of lights / groups
ListingDecodes ==
    /\ resp.err = NoErr
    /\ resp.top = "object"
    /\ \A k \in ResponseKeys : resp.members[k].kind = "object" /\ resp.members[k].nameKind # "number"

EntryName(k) == IF resp.members[k].nameKind = "string" THEN resp.members[k].name ELSE ""

\* C5: on a mapping of N keys GetAllLights / GetAllGroups return N objects, one per key,
\* each with its key as identifier, that entry's fields and the Bridge called.
C5_OneObjectPerKey ==
    /\ (call.op = "GetAllLights" /\ ListingDecodes) =>
          /\ ret.err = NoErr
          /\ Len(ret.lights) = Cardinality(ResponseKeys)
          /\ { ret.lights[i].ID : i \in DOMAIN ret.lights } = ResponseKeys
          /\ \A i \in DOMAIN ret.lights :
                /\ ret.lights[i].Name = EntryName(ret.lights[i].ID)
                /\ ret.lights[i].bridge = call.bridge
    /\ (call.op = "GetAllGroups" /\ ListingDecodes) =>
          /\ ret.err = NoErr
          /\ Len(ret.groups) = Cardinality(ResponseKeys)
          /\ { ret.groups[i].ID : i \in DOMAIN ret.groups } = ResponseKeys
          /\ \A i \in DOMAIN ret.groups :
                /\ ret.groups[i].Name = EntryName(ret.groups[i].ID)
                /\ ret.groups[i].Lights = resp.members[ret.groups[i].ID].lights
                /\ ret.groups[i].Bridge = call.bridge

\* C6: GetAllGroups returns every entry of the mapping but the one keyed "0".
C6_GroupZeroExcluded ==
    (call.op = "GetAllGroups" /\ ListingDecodes) =>
        /\ \A i \in DOMAIN ret.groups : ret.groups[i].ID # "0"
        /\ ResponseKeys \ {"0"} \subseteq { ret.groups[i].ID : i \in DOMAIN ret.groups }

\* the /lights/new answer has the documented shape
NewLightsWellFormed ==
    /\ resp.err = NoErr
    /\ resp.top = "object"
    /\ "lastscan" \in ResponseKeys
    /\ resp.members["lastscan"].kind = "string"
    /\ \A k \in ResponseKeys \ {"lastscan"} :
          resp.members[k].kind = "object" /\ resp.members[k].nameKind = "string"

\* C7: on light entries plus lastscan, GetNewLights returns one light per non-reserved
\* key (identifier = key, name = the entry's name), none named "lastscan", and the value
\* of lastscan as the last-scan timestamp.
C7_NewLightsSeparateLastScan ==
    (call.op = "GetNewLights" /\ NewLightsWellFormed) =>
        /\ ret.outcome = "return"
        /\ ret.err = NoErr
        /\ Len(ret.lights) = Cardinality(ResponseKeys \ {"lastscan"})
        /\ { ret.lights[i].ID : i \in DOMAIN ret.lights } = ResponseKeys \ {"lastscan"}
        /\ \A i \in DOMAIN ret.lights : ret.lights[i].Name = resp.members[ret.lights[i].ID].name
        /\ ret.lastScan = resp.members["lastscan"].str

\* GetNewLights returned a light next to the last-scan timestamp
C7_Witness ==
    /\ call.op = "GetNewLights"
    /\ NewLightsWellFormed
    /\ Len(ret.lights) >= 1
    /\ ret.lastScan = "2014-01-01T00:00:00"

\* C8: the lookups return a light with the identifier (name) asked for when the listing
\* has one; otherwise no light and a not-found error whose message contains the key; an
\* error of GetAllLights comes back unchanged, with no light.
C8_FindLight ==
    (call.op \in {"FindLightByID", "FindLightByName"}) =>
        LET matches == IF call.op = "FindLightByID"
                       THEN { k \in ResponseKeys : k = call.key }
                       ELSE { k \in ResponseKeys : EntryName(k) = call.key }
        IN  /\ ret.outcome = "return"
            /\ resp.err # NoErr => (ret.err = resp.err /\ ret.light = <<>>)
            /\ (resp.err = NoErr /\ ~ListingDecodes) => (ret.err.kind = "decode" /\ ret.light = <<>>)
            /\ (ListingDecodes /\ matches # {}) =>
                  /\ ret.err = NoErr
                  /\ Len(ret.light) = 1
                  /\ ret.light[1].ID \in matches
                  /\ call.op = "FindLightByID" => ret.light[1].ID = call.key
                  /\ call.op = "FindLightByName" => ret.light[1].Name = call.key
            /\ (ListingDecodes /\ matches = {}) =>
                  /\ ret.light = <<>>
                  /\ ret.err.kind = "notfound"
                  /\ \E i \in DOMAIN ret.err.msg : ret.err.msg[i] = call.key

\* FindLightByName("Missing") failed on a non-matching collection
C8_Witness ==
    /\ call.op = "FindLightByName"
    /\ call.key = "Missing"
    /\ ListingDecodes
    /\ ResponseKeys # {}
    /\ ret.err.kind = "notfound"

\* C9: every Light or Group handed to the caller refers to the Bridge that produced it,
\* and an operation on a held light sends its request through that light's Bridge.
C9_ResourcesKeepTheirBridge ==
    /\ \A i \in DOMAIN ret.lights : ~ret.lights[i].bridge.nil /\ ret.lights[i].bridge = call.bridge
    /\ \A i \in DOMAIN ret.light : ~ret.light[i].bridge.nil /\ ret.light[i].bridge = call.bridge
    /\ \A i \in DOMAIN ret.groups : ~ret.groups[i].Bridge.nil /\ ret.groups[i].Bridge = call.bridge
    /\ call.op \in LightOps =>
          /\ sent.method \in {"GET", "PUT"}
          /\ SubSeq(sent.uri, 1, 4) =
                <<"http://", call.light[1].bridge.IPAddr, "/api/", call.light[1].bridge.Username>>

\* C10: a body that is malformed or of an unexpected shape makes the listing call return
\* a decode error, not a transport error, not a success and not an abort.
C10_BadShapeIsADecodeError ==
    /\ (call.op = "GetNewLights" /\ resp.err = NoErr /\ ~NewLightsWellFormed) =>
          (ret.outcome = "return" /\ ret.err.kind = "decode")
    /\ (call.op \in {"GetAllLights", "GetAllGroups"} /\ resp.err = NoErr /\ ~ListingDecodes) =>
          (ret.outcome = "return" /\ ret.err.kind = "decode")

====
